---- MODULE Spec2Model ----
(***************************************************************************)
(* Context-compression subsystem: the chunker (utils/chunking.py), the     *)
(* chunk store and shared helpers (core/strategies/base.py), the           *)
(* chunk-filtering strategy (core/strategies/chunk_filtering.py), the      *)
(* fact-centric strategy (core/strategies/fact_centric.py) and the         *)
(* summarization strategy (core/strategies/summarization.py).              *)
(*                                                                         *)
(* Texts are sequences of one-character strings, so that len(), strip(),   *)
(* split() and join() are computed as Python computes them.  Chunk ids and *)
(* URLs are TLA+ strings built with \o.                                    *)
(***************************************************************************)
EXTENDS Integers, Sequences, FiniteSets, TLC

VARIABLES
    \* ---- merge_segments under test (utils/chunking.py) ----
    segments,        \* the argument `segments`
    char_limit,      \* the argument `char_limit`
    chunks,          \* the returned list of chunks
    merged,          \* TRUE once merge_segments has returned
    \* ---- one strategy instance (core/strategies/*.py) ----
    chunk_store,     \* self.chunk_store: chunk_id -> text
    chunk_url_map,   \* self.chunk_url_map: chunk_id -> url
    knowledge_base,  \* self.knowledge_base
    chunk_pairs,     \* process's local chunk_pairs of the last call
    response,        \* what call_llm returned in the last process call
    raised,          \* the exception the last call raised, "none" if it returned
    ret,             \* the value the last call returned
    emitted,         \* every fact get_checklist_context has reported so far
    calls,           \* number of process calls made
    llm_calls,       \* the prompts the last call sent to call_llm, in order
    summ_log,        \* per SummarizationStrategy.process call: was
                     \* search_results empty, did it hold an entry without
                     \* text, the batch summary, the prompts it sent and
                     \* what it raised
    merge_call       \* the _merge_summaries invocation of the last call

chunkerVars == <<segments, char_limit, chunks, merged>>
strategyVars == <<chunk_store, chunk_url_map, knowledge_base, chunk_pairs,
                  response, raised, ret, emitted, calls, llm_calls, summ_log,
                  merge_call>>
vars == <<segments, char_limit, chunks, merged, chunk_store, chunk_url_map,
          knowledge_base, chunk_pairs, response, raised, ret, emitted, calls,
          llm_calls, summ_log, merge_call>>

(***************************************************************************)
(* Bounds of the model.                                                    *)
(***************************************************************************)
MaxSegLen == 3      \* longest raw segment handed to merge_segments
MaxSegs == 2        \* most segments in one merge_segments call
MaxLimit == 4       \* largest char_limit tried for merge_segments
MaxCalls == 2       \* most process calls on one strategy instance
MaxResults == 2     \* most (url, content) entries in one search_results list
MaxIndices == 2     \* most indices in one list returned by the completion service
LongLen == 250      \* length of each of the two long sentences of DocLong
MaxFacts == 1       \* most fact records in one fact-extraction response
MaxFactResults == 1 \* most entries in one search_results list of the fact strategy
MaxItems == 2       \* most entries in one relevant_items list
MaxPages == 2       \* most entries in one search_results list of the summarization strategy

(***************************************************************************)
(* Python str helpers.                                                     *)
(***************************************************************************)
Range(f) == {f[i] : i \in DOMAIN f}

SeqsUpTo(S, n) == UNION {[1..k -> S] : k \in 0..n}

\* characters str.strip() removes (the ones the model's alphabets contain)
Whitespace == {" ", "\n", "\t"}

\* str.strip(): drop leading and trailing whitespace
RECURSIVE lstrip(_)
lstrip(s) ==
    IF s # <<>> /\ Head(s) \in Whitespace THEN lstrip(Tail(s)) ELSE s

RECURSIVE rstrip(_)
rstrip(s) ==
    IF s # <<>> /\ s[Len(s)] \in Whitespace
    THEN rstrip(SubSeq(s, 1, Len(s) - 1))
    ELSE s

strip(s) == rstrip(lstrip(s))

\* Values of `ret`: None, a str (a text), or the JSON text of a list (its data)
RetNone == [type |-> "NoneType", value |-> <<>>]
RetStr(text) == [type |-> "str", value |-> text]
RetJson(data) == [type |-> "json", value |-> data]

\* `response` while no completion call has been made by the last process
NoResponse == [kind |-> "no_call"]

\* no _merge_summaries invocation
NoMerge == [called |-> FALSE, old |-> <<>>, new |-> <<>>, result |-> <<>>]

\* list.extend
extend_at_front(list, more) == more \o list
extend(list, more) == list \o more

\* sep.join(parts)
RECURSIVE join(_, _)
join(sep, parts) ==
    IF parts = <<>> THEN <<>>
    ELSE IF Len(parts) = 1 THEN parts[1]
    ELSE parts[1] \o sep \o join(sep, Tail(parts))

\* s.split(c) for a one-character separator c: a non-empty list of pieces
RECURSIVE split(_, _)
split(s, c) ==
    IF \A i \in 1..Len(s) : s[i] # c THEN <<s>>
    ELSE LET k == CHOOSE i \in 1..Len(s) :
                      s[i] = c /\ \A j \in 1..(i - 1) : s[j] # c
         IN <<SubSeq(s, 1, k - 1)>> \o split(SubSeq(s, k + 1, Len(s)), c)

\* s.startswith(p)
startswith(s, p) == Len(s) >= Len(p) /\ SubSeq(s, 1, Len(p)) = p

(***************************************************************************)
(* utils/chunking.py                                                       *)
(***************************************************************************)
CHAR_LIMIT == 500

\* The for-loop of merge_segments from segment i on; `current` is the list of
\* pieces of the open chunk and current_len its joined length.
RECURSIVE merge_loop(_, _, _, _, _, _)
merge_loop(segs, i, limit, out, current, current_len) ==
    IF i > Len(segs)
    THEN IF current # <<>> THEN Append(out, join(<<"\n">>, current)) ELSE out
    ELSE LET piece == strip(segs[i])
             piece_len == Len(piece)
             prospective == IF current = <<>> THEN piece_len
                            ELSE current_len + 1 + piece_len
         IN IF piece = <<>>
            THEN merge_loop(segs, i + 1, limit, out, current, current_len)
            ELSE IF current # <<>> /\ prospective > limit
            THEN merge_loop(segs, i + 1, limit,
                            Append(out, join(<<"\n">>, current)),
                            <<piece>>, piece_len)
            ELSE merge_loop(segs, i + 1, limit, out,
                            Append(current, piece), prospective)

merge_segments_no_separator(segs, limit) ==
    LET RECURSIVE loop(_, _, _, _)
        loop(i, out, current, current_len) ==
            IF i > Len(segs)
            THEN IF current # <<>> THEN Append(out, join(<<"\n">>, current)) ELSE out
            ELSE LET piece == strip(segs[i])
                     prospective == current_len + Len(piece)
                 IN IF piece = <<>> THEN loop(i + 1, out, current, current_len)
                    ELSE IF current # <<>> /\ prospective > limit
                    THEN loop(i + 1, Append(out, join(<<"\n">>, current)),
                              <<piece>>, Len(piece))
                    ELSE loop(i + 1, out, Append(current, piece), prospective)
    IN loop(1, <<>>, <<>>, 0)

merge_segments_drop_tail(segs, limit) ==
    IF Len(segs) <= 1 THEN merge_loop(segs, 1, limit, <<>>, <<>>, 0)
    ELSE merge_loop(SubSeq(segs, 1, Len(segs) - 1), 1, limit, <<>>, <<>>, 0)

merge_segments(segs, limit) == merge_loop(segs, 1, limit, <<>>, <<>>, 0)

(***************************************************************************)
(* merge_segments as a system: Init draws the arguments, Merge applies it. *)
(***************************************************************************)
SegAlphabet == {"a", "\n"}
SegmentInputs == SeqsUpTo(SeqsUpTo(SegAlphabet, MaxSegLen), MaxSegs)

NoStrategy ==
    /\ chunk_store = <<>>
    /\ chunk_url_map = <<>>
    /\ knowledge_base = <<>>
    /\ chunk_pairs = <<>>
    /\ response = NoResponse
    /\ raised = "none"
    /\ ret = RetNone
    /\ emitted = {}
    /\ calls = 0
    /\ llm_calls = <<>>
    /\ summ_log = <<>>
    /\ merge_call = NoMerge

InitChunker ==
    /\ segments \in SegmentInputs
    /\ char_limit \in 0..MaxLimit
    /\ chunks = <<>>
    /\ merged = FALSE
    /\ NoStrategy

Merge ==
    /\ ~merged
    /\ chunks' = merge_segments(segments, char_limit)
    /\ merged' = TRUE
    /\ UNCHANGED <<segments, char_limit>>
    /\ UNCHANGED strategyVars

NextChunker == Merge

SpecChunker == InitChunker /\ [][NextChunker]_vars

\* the whitespace-stripped non-empty input sentences, in input order
Pieces(segs) ==
    LET RECURSIVE go(_)
        go(i) == IF i > Len(segs) THEN <<>>
                 ELSE (IF strip(segs[i]) = <<>> THEN <<>> ELSE <<strip(segs[i])>>)
                      \o go(i + 1)
    IN go(1)

Urls == {"u1", "u2"}

Rep(c, n) == [i \in 1..n |-> c]

\* Page contents, referred to by name in search_results: Content(d) is the text.
DocBlank == <<" ", "\n">>
DocShort == <<"c", ".">>
\* two sentences that do not fit one chunk of CHAR_LIMIT characters together
DocLong == Rep("a", LongLen) \o <<".", " ">> \o Rep("b", LongLen) \o <<".">>
Docs == {"blank", "short", "long"}
Content(d) ==
    CASE d = "blank" -> DocBlank
      [] d = "short" -> DocShort
      [] d = "long" -> DocLong

\* search_results: lists of (url, content)
SearchResults == SeqsUpTo(Urls \X Docs, MaxResults)

\* integers the completion service may put in an index list
IndexVals == {-2, 0, 1}
IndexLists == SeqsUpTo(IndexVals, MaxIndices)

\* nltk's sent_tokenize (external): a sentence ends at a "." that is followed
\* by a space; the whitespace between two sentences belongs to neither.
RECURSIVE sent_tokenize(_)
sent_tokenize(text) ==
    LET t == lstrip(text)
        ends == {k \in 1..(Len(t) - 1) : t[k] = "." /\ t[k + 1] = " "}
    IN IF t = <<>> THEN <<>>
       ELSE IF ends = {} THEN <<t>>
       ELSE LET k == CHOOSE e \in ends : \A f \in ends : e <= f
            IN <<SubSeq(t, 1, k)>> \o sent_tokenize(SubSeq(t, k + 1, Len(t)))

chunk_documents(text) == merge_segments(sent_tokenize(text), CHAR_LIMIT)

\* chunk_documents of every page content of the model, computed once
DocChunks == [d \in Docs |-> chunk_documents(Content(d))]
\* `not content or not content.strip()` of every page content
DocIsBlank == [d \in Docs |-> Content(d) = <<>> \/ strip(Content(d)) = <<>>]

(***************************************************************************)
(* core/strategies/base.py                                                 *)
(***************************************************************************)
\* hashlib.md5(url.encode()).hexdigest()[:8] of the model's URLs
Md5Hex8(url) ==
    CASE url = "u1" -> "e4774cdd"
      [] url = "u2" -> "270c1b08"

generate_chunk_id(url, index) == Md5Hex8(url) \o "-" \o ToString(index)

\* the (chunk_id, chunk_text) pairs of one search result: the inner loop of
\* _chunk_and_store; enumerate() counts from 0
EntryPairs(url, content) ==
    IF DocIsBlank[content] THEN <<>>
    ELSE [k \in 1..Len(DocChunks[content]) |->
             <<generate_chunk_id(url, k - 1), DocChunks[content][k]>>]

\* _chunk_and_store: the returned chunk_pairs
RECURSIVE ChunkPairsOf(_)
ChunkPairsOf(results) ==
    IF results = <<>> THEN <<>>
    ELSE EntryPairs(results[1][1], results[1][2]) \o ChunkPairsOf(Tail(results))

\* d[key] = value for every (key, value) of pairs, in order (later wins)
RECURSIVE StoreAll(_, _)
StoreAll(d, pairs) ==
    IF pairs = <<>> THEN d
    ELSE StoreAll((pairs[1][1] :> pairs[1][2]) @@ d, Tail(pairs))

\* the (chunk_id, url) pairs _chunk_and_store writes to chunk_url_map
RECURSIVE UrlPairsOf(_)
UrlPairsOf(results) ==
    IF results = <<>> THEN <<>>
    ELSE [k \in 1..Len(EntryPairs(results[1][1], results[1][2])) |->
             <<EntryPairs(results[1][1], results[1][2])[k][1], results[1][1]>>]
         \o UrlPairsOf(Tail(results))

chunk_store_replaced(store, results) == StoreAll(<<>>, ChunkPairsOf(results))
chunk_store_after(store, results) == StoreAll(store, ChunkPairsOf(results))
chunk_url_map_after(map, results) == StoreAll(map, UrlPairsOf(results))

\* dict.get(key, default)
DictGet(d, key, default) == IF key \in DOMAIN d THEN d[key] ELSE default

Separator == <<"\n", "\n", "-", "-", "-", "\n", "\n">>

(***************************************************************************)
(* core/strategies/chunk_filtering.py                                      *)
(***************************************************************************)
\* Outcomes of the call_llm call of the filter prompt: a JSON object
\* carrying relevant_indices, a JSON object without that key, text that is
\* no JSON (the empty string included), or call_llm raising ("api_error":
\* utils/llm_client.py catches nothing and retries nothing).
FilterResponses ==
    [kind : {"object"}, relevant_indices : IndexLists]
        \cup {[kind |-> "object_nokey", relevant_indices |-> <<>>],
              [kind |-> "not_json", relevant_indices |-> <<>>],
              [kind |-> "api_error", relevant_indices |-> <<>>]}

\* list indexing pairs[i] with Python's negative indices; 0-based i
PyIndexable(n, i) == -n <= i /\ i < n
PyPos(n, i) == IF i >= 0 THEN i + 1 ELSE n + i + 1

\* [chunk_pairs[i][0] for i in indices if i < len(chunk_pairs)]
MapIndices(pairs, indices) ==
    LET n == Len(pairs)
        RECURSIVE go(_)
        go(k) == IF k > Len(indices) THEN <<>>
                 ELSE (IF indices[k] < n
                       THEN <<pairs[PyPos(n, indices[k])][1]>> ELSE <<>>)
                      \o go(k + 1)
    IN go(1)

\* the comprehension raises IndexError at an index below -len(chunk_pairs)
MapRaises(pairs, indices) ==
    \E k \in 1..Len(indices) :
        indices[k] < Len(pairs) /\ ~PyIndexable(Len(pairs), indices[k])

\* _filter_chunks: "none" when it returns, else the exception it raises
filter_chunks_raises(pairs, resp) ==
    IF pairs = <<>> THEN "none"
    ELSE IF resp.kind = "api_error" THEN "APIError"
    ELSE IF resp.kind = "not_json" THEN "JSONDecodeError"
    ELSE IF MapRaises(pairs, resp.relevant_indices) THEN "IndexError"
    ELSE "none"

filter_chunks(pairs, resp) ==
    IF pairs = <<>> THEN <<>> ELSE MapIndices(pairs, resp.relevant_indices)

InitFiltering ==
    /\ chunk_store = <<>>
    /\ chunk_url_map = <<>>
    /\ knowledge_base = <<>>
    /\ chunk_pairs = <<>>
    /\ response = NoResponse
    /\ raised = "none"
    /\ ret = RetNone
    /\ emitted = {}
    /\ calls = 0
    /\ llm_calls = <<>>
    /\ summ_log = <<>>
    /\ merge_call = NoMerge
    /\ segments = <<>>
    /\ char_limit = CHAR_LIMIT
    /\ chunks = <<>>
    /\ merged = FALSE

\* ChunkFilteringStrategy.process(query, search_results)
FilterProcess ==
    /\ calls < MaxCalls
    /\ \E results \in SearchResults, resp \in FilterResponses :
        LET pairs == ChunkPairsOf(results)
            err == filter_chunks_raises(pairs, resp)
        IN /\ chunk_store' = chunk_store_after(chunk_store, results)
           /\ chunk_url_map' = chunk_url_map_after(chunk_url_map, results)
           /\ chunk_pairs' = pairs
           /\ response' = IF pairs = <<>> THEN NoResponse ELSE resp
           /\ llm_calls' = IF pairs = <<>> THEN <<>> ELSE <<"chunk_filter">>
           /\ raised' = err
           /\ knowledge_base' =
                 IF err = "none"
                 THEN extend(knowledge_base, filter_chunks(pairs, resp))
                 ELSE knowledge_base
           /\ ret' = RetNone
    /\ calls' = calls + 1
    /\ UNCHANGED <<emitted, summ_log, merge_call>>
    /\ UNCHANGED chunkerVars

\* ChunkFilteringStrategy.get_checklist_context()
filter_checklist_context(kb, store) ==
    LET RECURSIVE texts(_)
        texts(k) == IF k > Len(kb) THEN <<>>
                    ELSE (IF kb[k] \in DOMAIN store THEN <<store[kb[k]]>> ELSE <<>>)
                         \o texts(k + 1)
    IN IF kb = <<>> THEN <<>> ELSE join(Separator, texts(1))

FilterGetChecklistContext ==
    /\ ret' = RetStr(filter_checklist_context(knowledge_base, chunk_store))
    /\ raised' = "none"
    /\ llm_calls' = <<>>
    /\ UNCHANGED <<chunk_store, chunk_url_map, knowledge_base, chunk_pairs,
                   response, emitted, calls, summ_log, merge_call>>
    /\ UNCHANGED chunkerVars

\* CompressionStrategy.reconstruct_report_context(relevant_items): the base
\* class default, which ignores relevant_items
FilterReconstructReportContext ==
    /\ ret' = RetStr(filter_checklist_context(knowledge_base, chunk_store))
    /\ raised' = "none"
    /\ llm_calls' = <<>>
    /\ UNCHANGED <<chunk_store, chunk_url_map, knowledge_base, chunk_pairs,
                   response, emitted, calls, summ_log, merge_call>>
    /\ UNCHANGED chunkerVars

NextFiltering ==
    \/ FilterProcess
    \/ FilterGetChecklistContext
    \/ FilterReconstructReportContext

SpecFiltering == InitFiltering /\ [][NextFiltering]_vars

(***************************************************************************)
(* core/strategies/fact_centric.py                                         *)
(***************************************************************************)
Digits == <<"0", "1", "2", "3", "4", "5", "6", "7", "8", "9">>

\* str(i) for i >= 0
RECURSIVE str_int(_)
str_int(i) ==
    IF i < 10 THEN <<Digits[i + 1]>>
    ELSE str_int(i \div 10) \o <<Digits[(i % 10) + 1]>>

DigitVal(c) == (CHOOSE k \in 1..10 : Digits[k] = c) - 1

RECURSIVE digits_value(_, _)
digits_value(ds, acc) ==
    IF ds = <<>> THEN acc
    ELSE digits_value(Tail(ds), acc * 10 + DigitVal(Head(ds)))

\* int(s): surrounding whitespace and one sign are accepted; anything else
\* than decimal digits after that raises ValueError (ok = FALSE)
py_int(s) ==
    LET t == strip(s)
        signed == t # <<>> /\ t[1] \in {"+", "-"}
        ds == IF signed THEN Tail(t) ELSE t
    IN IF ds = <<>> \/ \E k \in 1..Len(ds) : ds[k] \notin Range(Digits)
       THEN [ok |-> FALSE, value |-> 0]
       ELSE IF signed /\ t[1] = "-"
       THEN [ok |-> TRUE, value |-> 0 - digits_value(ds, 0)]
       ELSE [ok |-> TRUE, value |-> digits_value(ds, 0)]

FactPrefix == <<"f", "a", "c", "t", "_">>

\* f"fact_{i}"
fact_id_of(i) == FactPrefix \o str_int(i)

\* The index reconstruct_report_context reads from one item (lines 87-89):
\* ok = FALSE when the item does not start with "fact_" or int() raises.
parse_fact_index(fact_id) ==
    IF ~startswith(fact_id, FactPrefix) THEN [ok |-> FALSE, value |-> 0]
    ELSE py_int(split(fact_id, "_")[2])

\* the facts selected by relevant_items (lines 79-93); kb positions are 1-based
selected_facts_one_based(kb, items) ==
    IF ~items.given THEN kb
    ELSE LET RECURSIVE go(_)
             go(k) ==
                 IF k > Len(items.list) THEN <<>>
                 ELSE LET idx == parse_fact_index(items.list[k])
                      IN (IF idx.ok /\ 1 <= idx.value /\ idx.value <= Len(kb)
                          THEN <<kb[idx.value]>> ELSE <<>>) \o go(k + 1)
         IN go(1)

selected_facts(kb, items) ==
    IF ~items.given THEN kb
    ELSE LET RECURSIVE go(_)
             go(k) ==
                 IF k > Len(items.list) THEN <<>>
                 ELSE LET idx == parse_fact_index(items.list[k])
                      IN (IF idx.ok /\ 0 <= idx.value /\ idx.value < Len(kb)
                          THEN <<kb[idx.value + 1]>> ELSE <<>>) \o go(k + 1)
         IN go(1)

\* order-preserving removal of duplicates (lines 101-106)
RECURSIVE unique_in_order(_, _)
unique_in_order(ids, seen) ==
    IF ids = <<>> THEN <<>>
    ELSE IF Head(ids) \in seen THEN unique_in_order(Tail(ids), seen)
    ELSE <<Head(ids)>> \o unique_in_order(Tail(ids), seen \cup {Head(ids)})

RECURSIVE all_chunk_ids(_)
all_chunk_ids(facts) ==
    IF facts = <<>> THEN <<>>
    ELSE Head(facts).chunk_ids \o all_chunk_ids(Tail(facts))

\* the texts of the ids that are in the store (lines 109-112)
RECURSIVE stored_texts(_, _)
stored_texts(ids, store) ==
    IF ids = <<>> THEN <<>>
    ELSE (IF Head(ids) \in DOMAIN store THEN <<store[Head(ids)]>> ELSE <<>>)
         \o stored_texts(Tail(ids), store)

\* FactCentricStrategy.reconstruct_report_context(relevant_items)
reconstruct_report_context(kb, store, items) ==
    IF kb = <<>> THEN <<>>
    ELSE join(Separator,
              stored_texts(unique_in_order(all_chunk_ids(selected_facts(kb, items)), {}),
                           store))

\* FactCentricStrategy.get_checklist_context(): the list json.dumps serialises
checklist_facts(kb) ==
    [k \in 1..Len(kb) |->
        [fact_id |-> fact_id_of(k - 1),
         summary |-> kb[k].summary,
         source_url |-> kb[k].source_url]]

Summaries == {"", "A"}
FactRecords == [summary : Summaries, chunk_indices : IndexLists]

\* Outcomes of the call_llm call of the fact prompt: {"facts": [...]} or a
\* bare list of fact objects; a JSON list holding an item that is no object
\* ("list_non_object", e.g. [1]); {"facts": v} with v a number or null
\* ("facts_not_list"); another JSON value ("other_json"); text that is no
\* JSON ("not_json"); or call_llm raising ("api_error").
FactResponses ==
    [kind : {"facts_object", "list"}, facts : SeqsUpTo(FactRecords, MaxFacts)]
        \cup {[kind |-> k, facts |-> <<>>] :
                 k \in {"list_non_object", "facts_not_list", "other_json",
                        "not_json", "api_error"}}

\* facts_list of _extract_facts (lines 157-167)
facts_list_of(resp) ==
    IF resp.kind \in {"facts_object", "list"} THEN resp.facts ELSE <<>>

\* a loop that keeps a fact none of whose chunk_indices resolved
build_facts_keep_unresolved(pairs, url_map, facts_list) ==
    LET RECURSIVE go(_)
        go(k) ==
            IF k > Len(facts_list) THEN <<>>
            ELSE LET fd == facts_list[k]
                     ids == MapIndices(pairs, fd.chunk_indices)
                 IN (IF fd.summary = "" \/ fd.chunk_indices = <<>>
                     THEN <<>>
                     ELSE <<[summary |-> fd.summary,
                             chunk_ids |-> ids,
                             source_url |-> IF ids = <<>> THEN ""
                                            ELSE DictGet(url_map, ids[1], "")]>>)
                    \o go(k + 1)
    IN go(1)
\* the loop of _extract_facts over facts_list (lines 170-196)
build_facts(pairs, url_map, facts_list) ==
    LET RECURSIVE go(_)
        go(k) ==
            IF k > Len(facts_list) THEN <<>>
            ELSE LET fd == facts_list[k]
                     ids == MapIndices(pairs, fd.chunk_indices)
                 IN (IF fd.summary = "" \/ fd.chunk_indices = <<>> \/ ids = <<>>
                     THEN <<>>
                     ELSE <<[summary |-> fd.summary,
                             chunk_ids |-> ids,
                             source_url |-> DictGet(url_map, ids[1], "")]>>)
                    \o go(k + 1)
    IN go(1)

\* _extract_facts: "none" when it returns, else the exception it raises.
\* Only json.JSONDecodeError is caught (line 166): fact_data.get on an item
\* that is no dict raises AttributeError (line 171), and iterating a "facts"
\* value that is a number or null raises TypeError (line 170).
extract_facts_raises(pairs, resp) ==
    IF pairs = <<>> THEN "none"
    ELSE IF resp.kind = "api_error" THEN "APIError"
    ELSE IF resp.kind = "list_non_object" THEN "AttributeError"
    ELSE IF resp.kind = "facts_not_list" THEN "TypeError"
    ELSE IF \E k \in 1..Len(facts_list_of(resp)) :
               /\ facts_list_of(resp)[k].summary # ""
               /\ MapRaises(pairs, facts_list_of(resp)[k].chunk_indices)
    THEN "IndexError"
    ELSE "none"

extract_facts(pairs, url_map, resp) ==
    IF pairs = <<>> THEN <<>> ELSE build_facts(pairs, url_map, facts_list_of(resp))

\* a process that drops the knowledge base when _extract_facts raises
fact_kb_after_reset(kb, pairs, url_map, resp) ==
    IF extract_facts_raises(pairs, resp) = "none"
    THEN extend(kb, extract_facts(pairs, url_map, resp))
    ELSE <<>>
\* self.knowledge_base after process (lines 37-40): extended only when
\* _extract_facts returned
fact_kb_after(kb, pairs, url_map, resp) ==
    IF extract_facts_raises(pairs, resp) = "none"
    THEN extend(kb, extract_facts(pairs, url_map, resp))
    ELSE kb

InitFact == InitFiltering

\* FactCentricStrategy.process(query, search_results).  The breakpoint() call
\* left at line 147 hands control to the debugger hook and changes no state.
FactProcess ==
    /\ calls < MaxCalls
    /\ \E results \in SeqsUpTo(Urls \X Docs, MaxFactResults), resp \in FactResponses :
        LET pairs == ChunkPairsOf(results)
            err == extract_facts_raises(pairs, resp)
            url_map == chunk_url_map_after(chunk_url_map, results)
        IN /\ chunk_store' = chunk_store_after(chunk_store, results)
           /\ chunk_url_map' = url_map
           /\ chunk_pairs' = pairs
           /\ response' = IF pairs = <<>> THEN NoResponse ELSE resp
           /\ llm_calls' = IF pairs = <<>> THEN <<>> ELSE <<"fact_extract">>
           /\ raised' = err
           /\ knowledge_base' = fact_kb_after(knowledge_base, pairs, url_map, resp)
           /\ ret' = RetNone
    /\ calls' = calls + 1
    /\ UNCHANGED <<emitted, summ_log, merge_call>>
    /\ UNCHANGED chunkerVars

\* FactCentricStrategy.get_checklist_context()
FactGetChecklistContext ==
    /\ ret' = RetJson(checklist_facts(knowledge_base))
    /\ raised' = "none"
    /\ emitted' = emitted \cup
          {[fact_id |-> fact_id_of(k - 1), fact |-> knowledge_base[k]] :
              k \in 1..Len(knowledge_base)}
    /\ llm_calls' = <<>>
    /\ UNCHANGED <<chunk_store, chunk_url_map, knowledge_base, chunk_pairs,
                   response, calls, summ_log, merge_call>>
    /\ UNCHANGED chunkerVars

\* items a caller may pass in relevant_items
ItemVals ==
    {fact_id_of(0), fact_id_of(1), fact_id_of(9),
     FactPrefix \o <<"x">>,
     FactPrefix \o <<"0", "_", "9">>}
\* relevant_items: None (given = FALSE) or a list of items
ItemNone == [given |-> FALSE, list |-> <<>>]
ItemList(l) == [given |-> TRUE, list |-> l]
ItemArgs == {ItemList(l) : l \in SeqsUpTo(ItemVals, MaxItems)} \cup {ItemNone}

\* a reconstruct_report_context that keeps only the selected facts
reconstruct_kb_after_selected_only(kb, items) ==
    selected_facts(kb, items)
\* self.knowledge_base after reconstruct_report_context: selected_facts is
\* the list itself when relevant_items is None (line 81) and a new list
\* otherwise (line 84); either one is only iterated (lines 96-97)
reconstruct_kb_after(kb, items) ==
    kb

\* FactCentricStrategy.reconstruct_report_context(relevant_items)
FactReconstructReportContext ==
    /\ \E items \in ItemArgs :
          /\ ret' = RetStr(reconstruct_report_context(knowledge_base, chunk_store,
                                                      items))
          /\ knowledge_base' = reconstruct_kb_after(knowledge_base, items)
    /\ raised' = "none"
    /\ llm_calls' = <<>>
    /\ UNCHANGED <<chunk_store, chunk_url_map, chunk_pairs,
                   response, emitted, calls, summ_log, merge_call>>
    /\ UNCHANGED chunkerVars

NextFact ==
    \/ FactProcess
    \/ FactGetChecklistContext
    \/ FactReconstructReportContext

SpecFact == InitFact /\ [][NextFact]_vars

(***************************************************************************)
(* core/strategies/summarization.py.  The knowledge base is one text, ""   *)
(* at construction.  The prompt texts are not part of the state: what the  *)
(* completion service answers is any of LlmOutcomes whatever it was sent.  *)
(***************************************************************************)
\* search_results of the summarization strategy; "missing" is an entry whose
\* content is None
SummDocs == Docs \cup {"missing"}
SummResults == SeqsUpTo(Urls \X SummDocs, MaxPages)

\* some entry's content is None, empty or whitespace only
HasBlankEntry(results) ==
    \E k \in 1..Len(results) :
        results[k][2] = "missing" \/ DocIsBlank[results[k][2]]

\* Outcomes of one call_llm call for a plain-text prompt: the text returned,
\* or call_llm raising ("api_error")
LlmTexts == {<<>>, <<" ">>, <<"S">>, <<" ", "T", "\n">>}
LlmOutcomes ==
    [kind : {"text"}, text : LlmTexts] \cup {[kind |-> "api_error", text |-> <<>>]}
\* summaries a caller may hand to _merge_summaries
SummaryArgs == {<<>>, <<"S">>, <<"T">>}

\* _summarize_pages: "none" when it returns, else the exception it raises;
\* content[:5000] (line 89) raises TypeError on a content that is None
summarize_pages_raises(results, out) ==
    IF results = <<>> THEN "none"
    ELSE IF \E k \in 1..Len(results) : results[k][2] = "missing" THEN "TypeError"
    ELSE IF out.kind = "api_error" THEN "APIError"
    ELSE "none"

\* the prompts _summarize_pages sends
summarize_pages_prompts(results) ==
    IF results = <<>> \/ (\E k \in 1..Len(results) : results[k][2] = "missing")
    THEN <<>> ELSE <<"page_summarize">>

\* the value _summarize_pages returns
summarize_pages(results, out) ==
    IF results = <<>> THEN <<>> ELSE strip(out.text)

\* _merge_summaries: "none" when it returns, else the exception it raises
merge_summaries_raises(old, new, out) ==
    IF old # <<>> /\ new # <<>> /\ out.kind = "api_error" THEN "APIError" ELSE "none"

\* a merge that asks the completion service whatever its arguments are
merge_summaries_prompts_always(old, new) ==
    <<"summary_merge">>
\* the prompts _merge_summaries sends
merge_summaries_prompts(old, new) ==
    IF old = <<>> \/ new = <<>> THEN <<>> ELSE <<"summary_merge">>

\* a merge without the two early returns
merge_summaries_no_shortcut(old, new, out) ==
    strip(out.text)
\* the value _merge_summaries returns
merge_summaries(old, new, out) ==
    IF old = <<>> THEN new
    ELSE IF new = <<>> THEN old
    ELSE strip(out.text)

\* the record of one _merge_summaries invocation
MergeCall(old, new, out) ==
    [called |-> TRUE, old |-> old, new |-> new,
     result |-> IF merge_summaries_raises(old, new, out) = "none"
                THEN merge_summaries(old, new, out) ELSE <<>>]

InitSumm == InitFiltering

\* SummarizationStrategy.process(query, search_results)
SummProcess ==
    /\ calls < MaxCalls
    /\ \E results \in SummResults, out1 \in LlmOutcomes :
        LET err1 == summarize_pages_raises(results, out1)
            new_summary == summarize_pages(results, out1)
            merging == err1 = "none" /\ knowledge_base # <<>>
        IN \E out2 \in (IF merging /\ new_summary # <<>>
                        THEN LlmOutcomes ELSE {out1}) :
            LET err2 == IF merging
                        THEN merge_summaries_raises(knowledge_base, new_summary, out2)
                        ELSE "none"
                err == IF err1 # "none" THEN err1 ELSE err2
                prompts == summarize_pages_prompts(results)
                           \o (IF merging
                               THEN merge_summaries_prompts(knowledge_base, new_summary)
                               ELSE <<>>)
            IN /\ knowledge_base' =
                     IF err # "none" THEN knowledge_base
                     ELSE IF merging
                          THEN merge_summaries(knowledge_base, new_summary, out2)
                          ELSE new_summary
               /\ merge_call' = IF merging
                                THEN MergeCall(knowledge_base, new_summary, out2)
                                ELSE NoMerge
               /\ llm_calls' = prompts
               /\ summ_log' = Append(summ_log,
                     [results_empty |-> results = <<>>,
                      has_blank |-> HasBlankEntry(results),
                      batch_summary |-> IF err1 = "none" THEN new_summary ELSE <<>>,
                      prompts |-> prompts,
                      raised |-> err])
               /\ response' = IF summarize_pages_prompts(results) = <<>>
                              THEN NoResponse ELSE out1
               /\ raised' = err
               /\ ret' = RetNone
    /\ calls' = calls + 1
    /\ UNCHANGED <<chunk_store, chunk_url_map, chunk_pairs, emitted>>
    /\ UNCHANGED chunkerVars

\* SummarizationStrategy.get_checklist_context()
SummGetChecklistContext ==
    /\ ret' = RetStr(knowledge_base)
    /\ raised' = "none"
    /\ llm_calls' = <<>>
    /\ merge_call' = NoMerge
    /\ UNCHANGED <<chunk_store, chunk_url_map, knowledge_base, chunk_pairs,
                   response, emitted, calls, summ_log>>
    /\ UNCHANGED chunkerVars

\* CompressionStrategy.reconstruct_report_context(relevant_items): the base
\* class default; get_checklist_context() is a str and is returned as it is
SummReconstructReportContext ==
    /\ \E items \in {ItemNone, ItemList(<<>>), ItemList(<<fact_id_of(0)>>)} :
          ret' = RetStr(knowledge_base)
    /\ raised' = "none"
    /\ llm_calls' = <<>>
    /\ merge_call' = NoMerge
    /\ UNCHANGED <<chunk_store, chunk_url_map, knowledge_base, chunk_pairs,
                   response, emitted, calls, summ_log>>
    /\ UNCHANGED chunkerVars

\* SummarizationStrategy._merge_summaries(old_summary, new_summary) called on
\* its own
SummMergeSummaries ==
    /\ \E old \in SummaryArgs, new \in SummaryArgs, out \in LlmOutcomes :
          /\ merge_call' = MergeCall(old, new, out)
          /\ llm_calls' = merge_summaries_prompts(old, new)
          /\ raised' = merge_summaries_raises(old, new, out)
          /\ ret' = IF merge_summaries_raises(old, new, out) = "none"
                    THEN RetStr(merge_summaries(old, new, out)) ELSE RetNone
    /\ UNCHANGED <<chunk_store, chunk_url_map, knowledge_base, chunk_pairs,
                   response, emitted, calls, summ_log>>
    /\ UNCHANGED chunkerVars

NextSumm ==
    \/ SummProcess
    \/ SummGetChecklistContext
    \/ SummReconstructReportContext
    \/ SummMergeSummaries

SpecSumm == InitSumm /\ [][NextSumm]_vars

(***************************************************************************)
(* Claims about the chunker (checked under SpecChunker).                   *)
(***************************************************************************)
\* the pieces read back from the chunks: every chunk split at the newline
\* separator, concatenated in chunk order
SplitBack(cs) ==
    LET RECURSIVE go(_)
        go(k) == IF k > Len(cs) THEN <<>> ELSE split(cs[k], "\n") \o go(k + 1)
    IN go(1)

HasInnerNewline(segs) ==
    \E i \in 1..Len(segs) : \E k \in 1..Len(strip(segs[i])) : strip(segs[i])[k] = "\n"

\* C7 as stated: for every input, splitting the chunks at the newline and
\* concatenating the pieces yields exactly the stripped non-empty sentences,
\* each once and in input order.
C7_SplitBackIsInput ==
    merged => SplitBack(chunks) = Pieces(segments)

\* C7 amended: the same, for inputs none of whose stripped sentences contains
\* a newline itself; blank sentences produce no chunk.
C7_SplitBackIsInputNoInnerNewline ==
    merged =>
        /\ ~HasInnerNewline(segments) => SplitBack(chunks) = Pieces(segments)
        /\ Pieces(segments) = <<>> => chunks = <<>>

\* C7 witness: two sentences were packed into one chunk and a blank one dropped
\* or two chunks were emitted, with nothing containing an inner newline.
C7_Witness ==
    /\ merged
    /\ ~HasInnerNewline(segments)
    /\ Len(Pieces(segments)) = 2
    /\ Len(chunks) = 1

(***************************************************************************)
(* Claims about the chunk-filtering strategy and the chunk store (checked  *)
(* under SpecFiltering).                                                   *)
(***************************************************************************)
\* the chunk_ids at the indices that are positions 0..n-1 of the batch, in
\* the order returned; every other index contributes nothing
IdsAtPositions(pairs, indices) ==
    LET RECURSIVE go(_)
        go(k) == IF k > Len(indices) THEN <<>>
                 ELSE (IF 0 <= indices[k] /\ indices[k] < Len(pairs)
                       THEN <<pairs[indices[k] + 1][1]>> ELSE <<>>)
                      \o go(k + 1)
    IN go(1)

\* a process call has just been made on a non-empty batch and the completion
\* service returned a list of indices
ProcessedIndices ==
    /\ calls' = calls + 1
    /\ chunk_pairs' # <<>>
    /\ response'.kind = "object"

\* C1: whatever indices the completion service returns, process leaves the
\* knowledge base equal to what it was followed by the chunk_ids of the
\* batch's chunks at the returned indices, in the returned order, an index
\* that is no position of the batch contributing nothing.
C1_ProcessAppendsReturnedIds ==
    [][ProcessedIndices =>
          knowledge_base' =
              knowledge_base \o IdsAtPositions(chunk_pairs', response'.relevant_indices)]_vars

\* C2: an index that is no position 0..n-1 of the batch (negative ones
\* included) never makes process fail and adds no chunk_id: process returns and
\* the knowledge base grows by exactly one entry per in-range index.
C2_OutOfRangeIndexDropped ==
    [][ProcessedIndices =>
          /\ raised' = "none"
          /\ Len(knowledge_base') = Len(knowledge_base) +
                Cardinality({k \in 1..Len(response'.relevant_indices) :
                                /\ 0 <= response'.relevant_indices[k]
                                /\ response'.relevant_indices[k] < Len(chunk_pairs')})]_vars

\* C3: once chunk_store maps a chunk_id to a text, every later state maps it
\* to the same text, and chunk_url_map to the same URL.
C3_StoredChunksImmutable ==
    [][\A id \in DOMAIN chunk_store :
          /\ id \in DOMAIN chunk_store'
          /\ chunk_store'[id] = chunk_store[id]
          /\ chunk_url_map'[id] = chunk_url_map[id]]_vars

\* C4: the (chunk_id, text) pairs chunk_and_store returns for one batch give
\* no chunk_id twice.
C4_ChunkIdsUniqueInBatch ==
    \A i, j \in 1..Len(chunk_pairs) :
        i # j => chunk_pairs[i][1] # chunk_pairs[j][1]

(***************************************************************************)
(* Claims about the fact-centric strategy (checked under SpecFact).        *)
(***************************************************************************)
\* C5: no operation removes an entry of chunk_store or chunk_url_map: the key
\* set after every process, get_checklist_context or
\* reconstruct_report_context call contains the key set before it.
C5_ChunkStoreOnlyGrows ==
    [][/\ DOMAIN chunk_store \subseteq DOMAIN chunk_store'
       /\ DOMAIN chunk_url_map \subseteq DOMAIN chunk_url_map']_vars

\* C5 witness: two process calls have stored chunks of two pages and a read
\* has run since.
C5_Witness ==
    /\ calls >= 2
    /\ Cardinality(DOMAIN chunk_store) >= 3
    /\ ret.type = "str"

\* an item that is exactly "fact_{i}" for a position i of the knowledge base
StrictPosition(kb, item) ==
    IF \E i \in 0..(Len(kb) - 1) : item = fact_id_of(i)
    THEN <<kb[(CHOOSE i \in 0..(Len(kb) - 1) : item = fact_id_of(i)) + 1]>>
    ELSE <<>>

StrictlySelected(kb, list) ==
    LET RECURSIVE go(_)
        go(k) == IF k > Len(list) THEN <<>>
                 ELSE StrictPosition(kb, list[k]) \o go(k + 1)
    IN go(1)

\* C8: items that are not "fact_{index}" with an index of the knowledge base
\* are skipped; the result is the separator-joined texts of the selected
\* facts' chunk_ids in selection order, each at its first occurrence only.
C8_ReconstructSkipsUnparsedItems ==
    \A l \in SeqsUpTo(ItemVals, MaxItems) :
        reconstruct_report_context(knowledge_base, chunk_store, ItemList(l)) =
            join(Separator,
                 stored_texts(
                     unique_in_order(all_chunk_ids(StrictlySelected(knowledge_base, l)), {}),
                     chunk_store))

AllFactIds(kb) == ItemList([k \in 1..Len(kb) |-> fact_id_of(k - 1)])

\* C9: in every reachable state, reconstruct_report_context called with the
\* list "fact_0" .. "fact_{n-1}" returns what reconstruct_report_context(None)
\* returns.
C9_AllFactIdsEqualsNone ==
    reconstruct_report_context(knowledge_base, chunk_store, AllFactIds(knowledge_base))
        = reconstruct_report_context(knowledge_base, chunk_store, ItemNone)

\* C9 witness: the knowledge base holds two facts grounded in different chunks
\* and reconstruct_report_context has just returned their joined texts.
C9_Witness ==
    /\ Len(knowledge_base) >= 2
    /\ knowledge_base[1].chunk_ids # knowledge_base[2].chunk_ids
    /\ ret.type = "str"
    /\ ret.value # <<>>
    /\ ret.value = reconstruct_report_context(knowledge_base, chunk_store,
                                              AllFactIds(knowledge_base))

\* C10: a fact that get_checklist_context has reported as "fact_i" is still
\* the fact at knowledge-base position i, with the same summary, chunk_ids and
\* source_url, after any later calls.
C10_EmittedFactIdsStayValid ==
    \A e \in emitted :
        LET idx == parse_fact_index(e.fact_id)
        IN /\ idx.ok
           /\ 0 <= idx.value
           /\ idx.value < Len(knowledge_base)
           /\ knowledge_base[idx.value + 1] = e.fact

\* C10 witness: a fact was reported and a later process call appended another.
C10_Witness ==
    /\ emitted # {}
    /\ Len(knowledge_base) > Cardinality(emitted)
    /\ calls >= 2

(***************************************************************************)
(* Claims about malformed completion responses.                            *)
(***************************************************************************)
\* responses of the fact prompt that are not the expected JSON
MalformedFactKinds ==
    {"not_json", "other_json", "list_non_object", "facts_not_list"}

\* C11: a fact-centric process call whose completion response is malformed
\* (no JSON, or JSON that is neither a list of fact objects nor an object
\* wrapping such a list under "facts") returns normally and leaves the
\* knowledge base exactly as it was.
C11_MalformedFactResponseIsSoft ==
    [][(calls' = calls + 1 /\ response'.kind \in MalformedFactKinds)
          => (raised' = "none" /\ knowledge_base' = knowledge_base)]_vars

\* C12: a chunk-filtering process call whose completion response is not
\* parseable as JSON returns normally and leaves the knowledge base exactly
\* as it was.
C12_UnparseableFilterResponseIsSoft ==
    [][(calls' = calls + 1 /\ response'.kind = "not_json")
          => (raised' = "none" /\ knowledge_base' = knowledge_base)]_vars

(***************************************************************************)
(* Claims about the summarization strategy (checked under SpecSumm).       *)
(***************************************************************************)
\* C13: _merge_summaries with an empty old summary returns the new summary,
\* with an empty new summary returns the old summary, in both cases without
\* sending the merge prompt and without raising; and a process call with an
\* empty search_results leaves the cumulative summary unchanged.
C13_MergeIdentities ==
    [][/\ (merge_call'.called /\ merge_call'.old = <<>>)
            => /\ merge_call'.result = merge_call'.new
               /\ "summary_merge" \notin Range(llm_calls')
               /\ raised' = "none"
       /\ (merge_call'.called /\ merge_call'.new = <<>>)
            => /\ merge_call'.result = merge_call'.old
               /\ "summary_merge" \notin Range(llm_calls')
               /\ raised' = "none"
       /\ (calls' = calls + 1 /\ summ_log'[Len(summ_log')].results_empty)
            => /\ knowledge_base' = knowledge_base
               /\ llm_calls' = <<>>]_vars

\* C13 witness: the second process call had an empty search_results, went
\* through _merge_summaries with a non-empty old summary and an empty new
\* one, and the summary is still the old one.
C13_Witness ==
    /\ Len(summ_log) = 2
    /\ summ_log[2].results_empty
    /\ merge_call.called
    /\ merge_call.old # <<>>
    /\ merge_call.new = <<>>
    /\ knowledge_base = merge_call.old

\* two process calls were made, each with a non-empty search_results, and
\* both returned
TwoBatchesProcessed ==
    /\ Len(summ_log) = 2
    /\ \A k \in 1..2 : ~summ_log[k].results_empty /\ summ_log[k].raised = "none"

\* C14: after two process calls with non-empty results on a fresh instance,
\* the merge prompt was sent by the second call and not by the first,
\* whatever texts the completion service returned.
C14_SecondCallMerges ==
    TwoBatchesProcessed
        => /\ "summary_merge" \notin Range(summ_log[1].prompts)
           /\ "summary_merge" \in Range(summ_log[2].prompts)

\* C14 (amended): the first process call never sends the merge prompt, and
\* of two process calls with non-empty results the second sends it exactly
\* when both batch summaries are non-empty after strip().
C14_SecondCallMergesNonEmptySummaries ==
    /\ Len(summ_log) >= 1 => "summary_merge" \notin Range(summ_log[1].prompts)
    /\ TwoBatchesProcessed
         => ("summary_merge" \in Range(summ_log[2].prompts)
                <=> (summ_log[1].batch_summary # <<>>
                       /\ summ_log[2].batch_summary # <<>>))

\* C14 witness: two batches with non-empty summaries, merged by the second
\* call into a text the completion service returned.
C14_Witness ==
    /\ TwoBatchesProcessed
    /\ summ_log[1].batch_summary = <<"S">>
    /\ summ_log[2].batch_summary = <<"T">>
    /\ summ_log[2].prompts = <<"page_summarize", "summary_merge">>
    /\ merge_call.called
    /\ knowledge_base = merge_call.result
    /\ knowledge_base # <<>>

(***************************************************************************)
(* Claims about the read operations.                                       *)
(***************************************************************************)
\* a step of get_checklist_context or reconstruct_report_context: the only
\* steps that are neither a process call nor a _merge_summaries call
ReadStep == calls' = calls /\ ~merge_call'.called

\* C15: get_checklist_context and reconstruct_report_context leave
\* chunk_store, chunk_url_map and knowledge_base unchanged, send nothing to
\* the completion service and do not raise; get_checklist_context called
\* twice in a row returns the same value.
C15_ReadsArePure ==
    [][ReadStep
          => /\ chunk_store' = chunk_store
             /\ chunk_url_map' = chunk_url_map
             /\ knowledge_base' = knowledge_base
             /\ llm_calls' = <<>>
             /\ raised' = "none"
             /\ (ret.type = ret'.type /\ ret.type = RetJson(<<>>).type)
                    => ret' = ret]_vars

\* C15 witness: reconstruct_report_context returned a non-empty text from a
\* knowledge base of two facts, without a completion call.
C15_Witness ==
    /\ Len(knowledge_base) = 2
    /\ ret.type = RetStr(<<>>).type
    /\ ret.value # <<>>
    /\ llm_calls = <<>>
    /\ emitted # {}

(***************************************************************************)
(* Claims about entries without text.                                      *)
(***************************************************************************)
\* C16: a process call whose search_results holds an entry with an empty,
\* whitespace-only or missing text raises nothing on account of that entry
\* (the completion service failing apart) and adds no chunk for it; here,
\* for the summarization strategy, the chunk store stays as it was.
C16_BlankEntriesTolerated ==
    [][(/\ calls' = calls + 1
        /\ Len(summ_log') = calls'
        /\ summ_log'[calls'].has_blank
        /\ raised' # "APIError")
          => (raised' = "none" /\ chunk_store' = chunk_store)]_vars

(***************************************************************************)
(* Claims about the facts of the knowledge base (checked under SpecFact).  *)
(***************************************************************************)
\* C17: every fact of the knowledge base has a non-empty summary and a
\* non-empty chunk_ids, each of its chunk_ids is a key of chunk_store, and
\* its source_url is the chunk_url_map entry of its first chunk_id.
C17_FactsWellFormed ==
    \A k \in 1..Len(knowledge_base) :
        LET fact == knowledge_base[k]
        IN /\ fact.summary # ""
           /\ fact.chunk_ids # <<>>
           /\ \A j \in 1..Len(fact.chunk_ids) :
                  fact.chunk_ids[j] \in DOMAIN chunk_store
           /\ fact.chunk_ids[1] \in DOMAIN chunk_url_map
           /\ fact.source_url = chunk_url_map[fact.chunk_ids[1]]

\* C17 witness: two facts from two batches of different pages, one of them
\* with two chunk_ids, after the second batch wrote to chunk_url_map.
C17_Witness ==
    /\ calls = 2
    /\ Len(knowledge_base) = 2
    /\ knowledge_base[1].source_url # knowledge_base[2].source_url
    /\ \E k \in 1..2 : Len(knowledge_base[k].chunk_ids) = 2

(***************************************************************************)
(* Claims about what chunk-filtering get_checklist_context returns         *)
(* (checked under SpecFiltering).                                          *)
(***************************************************************************)
\* a process call has just returned and every index the completion service
\* gave is a position 0..n-1 of the batch
ProcessedPositions ==
    /\ ProcessedIndices
    /\ raised' = "none"
    /\ \A k \in 1..Len(response'.relevant_indices) :
          /\ 0 <= response'.relevant_indices[k]
          /\ response'.relevant_indices[k] < Len(chunk_pairs')

\* the text get_checklist_context returns for knowledge-base entry k
SegmentOf(kb, store, k) == store[kb[k]]

\* C18: get_checklist_context returns "" for an empty knowledge base and
\* otherwise one segment per knowledge-base entry, in order, joined by the
\* separator; the segment of an entry is the text of the chunk the
\* completion service selected when process appended the entry, and stays
\* that text in every later state.
C18_ChecklistReturnsSelectedTexts ==
    [][/\ (ReadStep /\ ret'.type = RetStr(<<>>).type)
            => ret'.value =
                  IF knowledge_base' = <<>> THEN <<>>
                  ELSE join(Separator,
                            [k \in 1..Len(knowledge_base') |->
                                SegmentOf(knowledge_base', chunk_store', k)])
       /\ ProcessedPositions
            => \A j \in 1..Len(response'.relevant_indices) :
                  SegmentOf(knowledge_base', chunk_store', Len(knowledge_base) + j)
                     = chunk_pairs'[response'.relevant_indices[j] + 1][2]
       /\ \A k \in 1..Len(knowledge_base) :
              SegmentOf(knowledge_base', chunk_store', k)
                 = SegmentOf(knowledge_base, chunk_store, k)]_vars

====
